---- MODULE Spec2Model ----
(***************************************************************************)
(* A model of meegkit.utils.cca.nt_cca (CCA from covariance) and of the    *)
(* rank-reducing whitening whiten_nt it uses.                              *)
(*                                                                         *)
(* Python values are records tagged by `kind`.  Arrays live in `heap`      *)
(* (object id = index) and names hold references to them, so that the      *)
(* difference between rebinding a name and writing into an array shows.    *)
(* A covariance page is a diagonal matrix, held as its diagonal: its       *)
(* eigenvalues are then its diagonal entries, which makes linalg.eigh      *)
(* exact.  The entries of the transforms A, B and of the scores R are the  *)
(* results of floating-point linear algebra; they are held as terms        *)
(* (which array, of which page, at which index), and 0.0 as the term Zero. *)
(***************************************************************************)
EXTENDS Integers, Sequences, FiniteSets, TLC

\* Bounds of the inputs.
MaxChans == 4
MaxPages == 2
\* A covariance has eigenvalues Strong, but for at most MaxWeak that are Weak.
MaxWeak == 1

Min(a, b) == IF a <= b THEN a ELSE b

RECURSIVE Pow10(_)
Pow10(e) == IF e = 0 THEN 1 ELSE 10 * Pow10(e - 1)

(***************************************************************************)
(* Python values.                                                          *)
(***************************************************************************)
None == [kind |-> "None"]
PyInt(v) == [kind |-> "int", v |-> v]
PyList(s) == [kind |-> "list", v |-> s]
\* A float num * 10^-exp.
PyFloat(num, exp) == [kind |-> "float", num |-> num, exp |-> exp]
\* A 1-D integer array (a lags array).
IntArray(s) == [kind |-> "ndarray", shape |-> <<Len(s)>>, v |-> s]
\* A data array (n_times, n_chans) with orthogonal channels of the given power.
DataArray(pw) == [kind |-> "ndarray", shape |-> <<8, Len(pw)>>, power |-> pw]
\* A covariance array of the given shape; diag[k] is the diagonal of page k.
CovArray(shape, diag) == [kind |-> "ndarray", shape |-> shape, diag |-> diag]

IsNone(v) == v.kind = "None"

\* The term for 0.0, and for entry (i, j) of array `name` computed from `page`.
Zero == [name |-> "zero", page |-> <<>>, i |-> 0, j |-> 0]
Term(name, page, i, j) == [name |-> name, page |-> page, i |-> i, j |-> j]

\* Arrays of terms: a vector at[j], a matrix at[i][j], a stack at[k][i][j]
\* for the numpy entry [i, j, k], a score table at[k][j] for [j, k].
Vec(n, at) == [kind |-> "ndarray", shape |-> <<n>>, at |-> at]
Mat(r, c, at) == [kind |-> "ndarray", shape |-> <<r, c>>, at |-> at]
Stack(r, c, p, at) == [kind |-> "ndarray", shape |-> <<r, c, p>>, at |-> at]
Table(n, p, at) == [kind |-> "ndarray", shape |-> <<n, p>>, at |-> at]

\* np.zeros
ZerosStack(r, c, p) ==
    Stack(r, c, p, [k \in 1..p |-> [i \in 1..r |-> [j \in 1..c |-> Zero]]])
ZerosTable(n, p) == Table(n, p, [k \in 1..p |-> [j \in 1..n |-> Zero]])

\* Outcomes: an exception, a truth value, a call that has not ended.
Raise(type, msg) == [status |-> "raise", type |-> type, msg |-> msg]
True == [status |-> "true", type |-> "", msg |-> ""]
False == [status |-> "false", type |-> "", msg |-> ""]
Running == [status |-> "running", type |-> "", msg |-> ""]
Bool(b) == IF b THEN True ELSE False

(***************************************************************************)
(* Truth value of an object, as `any` takes it: a set of outcomes, each    *)
(* True, False or an exception.  An array of more than one element has no  *)
(* truth value (ValueError); an empty array is false, and since numpy 2.2  *)
(* an error.                                                               *)
(***************************************************************************)
AmbiguousTruth == Raise("ValueError", "The truth value of an array is ambiguous")

\* Mutant of Truth: whatever is not None is true.
TruthIsNotNone(v) == {Bool(v.kind # "None")}

Truth(v) ==
    CASE v.kind = "None" -> {False}
      [] v.kind = "int" -> {Bool(v.v # 0)}
      [] v.kind = "list" -> {Bool(Len(v.v) > 0)}
      [] v.kind = "ndarray" ->
            IF Len(v.shape) = 1 /\ v.shape[1] = 0 THEN {False, AmbiguousTruth}
            ELSE IF Len(v.shape) = 1 /\ v.shape[1] = 1 THEN {Bool(v.v[1] # 0)}
            ELSE {AmbiguousTruth}

\* any((X, Y, lags)): the first element that is true, or that raises, decides.
RECURSIVE AnyOf(_)
AnyOf(vs) ==
    IF vs = <<>> THEN {False}
    ELSE UNION {IF t = False THEN AnyOf(Tail(vs)) ELSE {t} : t \in Truth(Head(vs))}

(***************************************************************************)
(* whiten_nt on a diagonal block with diagonal d.                          *)
(***************************************************************************)
\* np.argsort(d)[::-1]: the eigenvalues in descending order.
RECURSIVE InsertDesc(_, _)
InsertDesc(x, s) ==
    IF s = <<>> THEN <<x>>
    ELSE IF x >= Head(s) THEN <<x>> \o s
    ELSE <<Head(s)>> \o InsertDesc(x, Tail(s))

RECURSIVE SortDesc(_)
SortDesc(s) == IF s = <<>> THEN <<>> ELSE InsertDesc(Head(s), SortDesc(Tail(s)))

\* np.max(d) of a non-empty descending d.
MaxOf(sorted) == Head(sorted)

\* (x / mx) > thresh for 0 <= x <= mx and thresh = num * 10^-exp.  0 / 0 is
\* nan, which is greater than nothing.  x * 10^exp > num * mx is taken in two
\* halves of the exponent to stay within the integers of the checker.
KeepAbove(x, mx, t) ==
    /\ mx > 0
    /\ x * Pow10(t.exp \div 2) > ((t.num * mx) \div Pow10(t.exp - (t.exp \div 2)))

\* Returns the whitening matrix W = V * D as [shape, d]: shape (n_chans,
\* n_retained), d the retained eigenvalues, or the ValueError of np.max on
\* an empty block.
whiten_nt(d, t) ==
    IF d = <<>>
    THEN Raise("ValueError", "zero-size array to reduction operation maximum")
    ELSE LET sorted == SortDesc(d)
             kept == SelectSeq(sorted, LAMBDA x : KeepAbove(x, MaxOf(sorted), t))
         IN  [status |-> "ok", shape |-> <<Len(d), Len(kept)>>, d |-> kept]

(***************************************************************************)
(* The heap: arrays by object id.  A reference names an object, or with    *)
(* page > 0 the view C[:, :, page] of a covariance stack.                  *)
(***************************************************************************)
Ref(id) == [kind |-> "ref", id |-> id, page |-> 0]
View(ref, k) == [kind |-> "ref", id |-> ref.id, page |-> k]

Deref(h, ref) ==
    IF ref.page = 0 THEN h[ref.id]
    ELSE CovArray(<<h[ref.id].shape[1], h[ref.id].shape[2]>>,
                  <<h[ref.id].diag[ref.page]>>)

\* A new array object: the heap with it, and the reference to it.
Alloc(h, val) == [heap |-> Append(h, val), ref |-> Ref(Len(h) + 1)]

\* Mutant of StoreProjected: the product is written into the array that C
\* names, C[:] = ..., or into the page that C is a view of.
StoreInPlace(h, ref, val) ==
    [heap |-> [h EXCEPT ![ref.id] =
                  IF ref.page = 0 THEN val
                  ELSE [@ EXCEPT !.diag[ref.page] = val.diag[1]]],
     ref |-> ref]

\* C = np.dot(np.dot(W.T, C), W): the product is a new array and the local
\* name C is bound to it; the array C named before is left as it was.
StoreProjected(h, ref, val) == Alloc(h, val)

(***************************************************************************)
(* The 2D core of nt_cca.                                                  *)
(***************************************************************************)
\* C[:m, :m] and C[m:, m:] of a page: the diagonals of the two blocks.
BlockX(page, m) == SubSeq(page, 1, Min(m, Len(page)))
BlockY(page, m) == SubSeq(page, m + 1, Len(page))

\* Cxw, Cyw: the first whitening that raises ends the call.
WhitenBoth(c, m, t) ==
    LET Cxw == whiten_nt(BlockX(c.diag[1], m), t)
        Cyw == whiten_nt(BlockY(c.diag[1], m), t)
    IN  IF Cxw.status = "raise" THEN [status |-> "raise", exc |-> Cxw, n |-> 1]
        ELSE IF Cyw.status = "raise" THEN [status |-> "raise", exc |-> Cyw, n |-> 2]
        ELSE [status |-> "ok", Cxw |-> Cxw, Cyw |-> Cyw, n |-> 2]

\* W is block-diagonal of Cxw and Cyw; W.T C W of a diagonal C is the
\* diagonal of the retained eigenvalues, each scaled by its whitening.
Projected(c, Cxw, Cyw) ==
    [kind |-> "ndarray",
     shape |-> <<Cxw.shape[2] + Cyw.shape[2], Cxw.shape[2] + Cyw.shape[2]>>,
     diag |-> <<Cxw.d \o Cyw.d>>,
     of |-> c.diag[1]]

\* pca(C): V (n, n) with columns by descending eigenvalue, and d (n,).
pca(c) == [V |-> <<c.shape[1], c.shape[2]>>, d |-> <<c.shape[1]>>]

\* Mutant of NComps: the larger of the two ranks.
NCompsMax(Cxw, Cyw) ==
    IF Cxw.shape[2] >= Cyw.shape[2] THEN Cxw.shape[2] ELSE Cyw.shape[2]

\* Number of CCA components.
NComps(Cxw, Cyw) == Min(Cxw.shape[2], Cyw.shape[2])

\* The shape of a[lo:hi, :n] for a 2D shape, and of d[:n] for a 1D shape.
RowsCols(shape, lo, hi, n) ==
    <<Min(hi, shape[1]) - Min(lo, shape[1]), Min(n, shape[2])>>
Upto(shape, n) == <<Min(n, shape[1])>>
\* The shape of np.dot(a, b).
DotShape(a, b) == <<a[1], b[2]>>

\* A, B, R of one page, from its whitenings and the PCA of its projection.
Components(page, Cxw, Cyw, cp) ==
    LET N == NComps(Cxw, Cyw)
        e == pca(cp)
        rx == Cxw.shape[2]
        sa == DotShape(Cxw.shape, RowsCols(e.V, 0, rx, N))
        sb == DotShape(Cyw.shape, RowsCols(e.V, rx, e.V[1], N))
        sr == Upto(e.d, N)
    IN  [A |-> Mat(sa[1], sa[2],
                   [i \in 1..sa[1] |-> [j \in 1..sa[2] |-> Term("A", page, i, j)]]),
         B |-> Mat(sb[1], sb[2],
                   [i \in 1..sb[1] |-> [j \in 1..sb[2] |-> Term("B", page, i, j)]]),
         R |-> Vec(sr[1], [j \in 1..sr[1] |-> Term("R", page, 0, j)])]

(***************************************************************************)
(* Argument checks of the covariance mode.                                 *)
(***************************************************************************)
Ok == [status |-> "ok", type |-> "", msg |-> ""]

\* Mutant of ValidateB: the number of dimensions is checked before the shape.
ValidateBDimsFirst(X, Y, lg, c, m) ==
    IF IsNone(c)
    THEN {Raise("RuntimeError", "covariance matrix should be defined")}
    ELSE IF IsNone(m)
    THEN {Raise("RuntimeError", "m should be defined")}
    ELSE IF Len(c.shape) > 3
    THEN {Raise("RuntimeError", "covariance should be 3D at most")}
    ELSE IF Len(c.shape) < 2
    THEN {Raise("IndexError", "tuple index out of range")}
    ELSE IF c.shape[1] # c.shape[2]
    THEN {Raise("RuntimeError", "covariance matrix should be square")}
    ELSE {IF t = True
          THEN Raise("RuntimeError", "only covariance should be defined at this point")
          ELSE IF t # False THEN t
          ELSE Ok : t \in AnyOf(<<X, Y, lg>>)}

\* The outcomes of the checks on C, m, (X, Y, lags) and C.ndim, in the
\* order of the code.  C.shape[1] of an array of one dimension is an
\* IndexError.
ValidateB(X, Y, lg, c, m) ==
    IF IsNone(c)
    THEN {Raise("RuntimeError", "covariance matrix should be defined")}
    ELSE IF IsNone(m)
    THEN {Raise("RuntimeError", "m should be defined")}
    ELSE IF Len(c.shape) < 2
    THEN {Raise("IndexError", "tuple index out of range")}
    ELSE IF c.shape[1] # c.shape[2]
    THEN {Raise("RuntimeError", "covariance matrix should be square")}
    ELSE {IF t = True
          THEN Raise("RuntimeError", "only covariance should be defined at this point")
          ELSE IF t # False THEN t
          ELSE IF Len(c.shape) > 3
          THEN Raise("RuntimeError", "covariance should be 3D at most")
          ELSE Ok : t \in AnyOf(<<X, Y, lg>>)}

(***************************************************************************)
(* The collaborators of the raw-data mode.                                 *)
(***************************************************************************)
\* _check_shifts: the number of lags; no lags, or a scalar, is one lag.
check_shifts(lg) ==
    CASE lg.kind = "None" -> 1
      [] lg.kind = "int" -> 1
      [] OTHER -> IF Len(lg.v) = 0 THEN 1 ELSE Len(lg.v)

\* cov_lags(X, Y, lags): the covariance of [X, Y], one page per lag (2D
\* for one lag), and m = X.shape[1].  What it does with an X or Y that is
\* no array is not stated: it raises, or returns a covariance of no
\* channels.
cov_lags(X, Y, nlags) ==
    IF X.kind # "ndarray" \/ Y.kind # "ndarray"
    THEN {[status |-> "raise", exc |-> Raise("AttributeError", "cov_lags: not an array"),
           C |-> None, m |-> None],
          [status |-> "ok", exc |-> Ok,
           C |-> CovArray(<<0, 0>>, <<<<>>>>), m |-> PyInt(0)]}
    ELSE LET n == Len(X.power) + Len(Y.power)
             d == X.power \o Y.power
         IN  {[status |-> "ok", exc |-> Ok,
               C |-> IF nlags = 1 THEN CovArray(<<n, n>>, <<d>>)
                     ELSE CovArray(<<n, n, nlags>>, [k \in 1..nlags |-> d]),
               m |-> PyInt(Len(X.power))]}

(***************************************************************************)
(* The 3D dispatch: one page of the stack.                                 *)
(***************************************************************************)
\* A[:AA.shape[0], :AA.shape[1], k] = AA
AssignCorner(S, k, M) ==
    IF M.shape[1] <= S.shape[1] /\ M.shape[2] <= S.shape[2]
    THEN [exc |-> Ok,
          arr |-> [S EXCEPT !.at[k] =
                     [i \in 1..S.shape[1] |-> [j \in 1..S.shape[2] |->
                         IF i <= M.shape[1] /\ j <= M.shape[2]
                         THEN M.at[i][j] ELSE @[i][j]]]]]
    ELSE [exc |-> Raise("ValueError", "could not broadcast input array"), arr |-> S]

\* R[:, k] = RR: RR of the length of the column is copied, RR of length one
\* is broadcast to the whole column, any other length is a ValueError.
AssignColumn(T, k, V) ==
    IF V.shape[1] = T.shape[1]
    THEN [exc |-> Ok, arr |-> [T EXCEPT !.at[k] = V.at]]
    ELSE IF V.shape[1] = 1
    THEN [exc |-> Ok, arr |-> [T EXCEPT !.at[k] = [j \in 1..T.shape[1] |-> V.at[1]]]]
    ELSE [exc |-> Raise("ValueError", "could not broadcast input array"), arr |-> T]

\* nt_cca(None, None, None, c, m, thresh) on a 2D c given by reference: the
\* checks, the two whitenings, the projection, the PCA.  `whitened` and
\* `pcas` count the calls of whiten_nt and pca.
nt_cca_2d(h, ref, m, t) ==
    LET c == Deref(h, ref)
        v == CHOOSE o \in ValidateB(None, None, None, c, PyInt(m)) : TRUE
        w == WhitenBoth(c, m, t)
        st == StoreProjected(h, ref, Projected(c, w.Cxw, w.Cyw))
        r == Components(c.diag[1], w.Cxw, w.Cyw, Deref(st.heap, st.ref))
    IN  IF v.status = "raise"
        THEN [exc |-> v, heap |-> h, whitened |-> 0, pcas |-> 0,
              A |-> None, B |-> None, R |-> None]
        ELSE IF w.status = "raise"
        THEN [exc |-> w.exc, heap |-> h, whitened |-> w.n, pcas |-> 0,
              A |-> None, B |-> None, R |-> None]
        ELSE [exc |-> Ok, heap |-> st.heap, whitened |-> 2, pcas |-> 1,
              A |-> r.A, B |-> r.B, R |-> r.R]

\* R[:, k] = RR, the last write of a turn of the loop.
WriteR(lc, k, r, h) ==
    LET c == AssignColumn(h[lc.R.id], k, r.R)
    IN  [exc |-> c.exc, heap |-> [h EXCEPT ![lc.R.id] = c.arr],
         whitened |-> r.whitened, pcas |-> r.pcas]

\* B[:BB.shape[0], :BB.shape[1], k] = BB, and then R.
WriteB(lc, k, r, h) ==
    LET b == AssignCorner(h[lc.B.id], k, r.B)
    IN  IF b.exc.status = "raise"
        THEN [exc |-> b.exc, heap |-> h, whitened |-> r.whitened, pcas |-> r.pcas]
        ELSE WriteR(lc, k, r, [h EXCEPT ![lc.B.id] = b.arr])

\* A[:AA.shape[0], :AA.shape[1], k] = AA, and then B and R.
WriteA(lc, k, r, h) ==
    LET a == AssignCorner(h[lc.A.id], k, r.A)
    IN  IF a.exc.status = "raise"
        THEN [exc |-> a.exc, heap |-> h, whitened |-> r.whitened, pcas |-> r.pcas]
        ELSE WriteB(lc, k, r, [h EXCEPT ![lc.A.id] = a.arr])

\* The writes of a turn of the loop, given the outcome r of the inner call.
\* The arrays the inner call made die with it: the heap keeps its n objects.
WritePage(lc, k, r, n) ==
    IF r.exc.status = "raise"
    THEN [exc |-> r.exc, heap |-> SubSeq(r.heap, 1, n),
          whitened |-> r.whitened, pcas |-> r.pcas]
    ELSE WriteA(lc, k, r, SubSeq(r.heap, 1, n))

\* Mutant of PageApply: the result of a page goes to the slot after those
\* filled so far.
PageApplyNextSlot(h, lc, cref, m, t, k) ==
    WritePage(lc, Cardinality(lc.done) + 1, nt_cca_2d(h, View(cref, k), m, t), Len(h))

\* The body of the loop for page k: the heap after it, and its exception
\* if it raised.
PageApply(h, lc, cref, m, t, k) ==
    WritePage(lc, k, nt_cca_2d(h, View(cref, k), m, t), Len(h))

(***************************************************************************)
(* The inputs that are explored.                                           *)
(***************************************************************************)
DefaultThresh == PyFloat(1, 12)
Half == PyFloat(5, 1)

DataVals == {None, PyList(<<>>), DataArray(<<2>>), DataArray(<<2, 1>>)}
LagVals ==
    {None, PyInt(0), PyInt(1), PyList(<<>>), PyList(<<0>>), PyList(<<0, 1>>),
     IntArray(<<>>), IntArray(<<0>>), IntArray(<<1>>), IntArray(<<0, 1>>)}
ThreshVals == {None, Half}
MVals == {None} \cup {PyInt(i) : i \in 1..MaxChans}

\* Square covariances, one page or a stack of pages.  Weak / Strong is at
\* the threshold Half, so that Half drops the weak eigenvalues of a block
\* that has a strong one; the default threshold drops the null eigenvalues
\* only.  No page is the null matrix.
Null == [v |-> 0]
Weak == [v |-> 1]
Strong == [v |-> 2]
Diagonals(n, p) ==
    LET pos == (1..p) \X (1..n)
        few == {S \in SUBSET pos : Cardinality(S) <= MaxWeak}
        all == UNION {{[k \in 1..p |-> [i \in 1..n |->
                          IF <<k, i>> \in Z THEN Null.v
                          ELSE IF <<k, i>> \in W THEN Weak.v ELSE Strong.v]] :
                       Z \in SUBSET W} : W \in few}
    IN  {ds \in all : \A k \in 1..p : \E i \in 1..n : ds[k][i] # Null.v}
Cov2D == UNION {{CovArray(<<n, n>>, ds) : ds \in Diagonals(n, 1)} : n \in 2..MaxChans}
Cov3D ==
    UNION {{CovArray(<<n, n, p>>, ds) : ds \in Diagonals(n, p)} :
           n \in 2..MaxChans, p \in 1..MaxPages}
\* Arrays that are no covariance: one dimension, not square, four dimensions.
Malformed ==
    {CovArray(sh, <<>>) :
       sh \in {<<2>>, <<2, 3>>, <<2, 3, 1>>, <<3, 2, 2>>, <<2, 2, 1, 1>>, <<2, 3, 1, 1>>}}

\* Calls in which only C, m and thresh are given, and calls with any X, Y
\* and lags beside a few covariances.
CovInputs ==
    [X : {None}, Y : {None}, lags : {None}, C : Cov2D \cup Cov3D,
     m : MVals, thresh : ThreshVals]
DispatchInputs ==
    [X : DataVals, Y : DataVals, lags : LagVals,
     C : {None, CovArray(<<2, 2>>, <<<<2, 1>>>>), CovArray(<<2, 2, 1>>, <<<<2, 1>>>>)}
         \cup Malformed,
     m : {None, PyInt(1)}, thresh : {None, Half}]

(***************************************************************************)
(* The state of one call of nt_cca.                                        *)
(***************************************************************************)
VARIABLES
    args,    \* the caller's arguments; C is a reference into the heap, or None
    heap,    \* the arrays
    frame,   \* the parameters X, Y, lags, C, m, thresh of the running call
    loc,     \* its locals Cxw, Cyw, A, B, R, and the pages done
    pc,      \* where the call is
    ret,     \* Running, the exception raised, or Ok once it returned
    result,  \* the references A, B, R returned
    calls    \* how often cov_lags, whiten_nt and pca were called

vars == <<args, heap, frame, loc, pc, ret, result, calls>>

NoLocals == [Cxw |-> None, Cyw |-> None, A |-> None, B |-> None, R |-> None, done |-> {}]
NoResult == [A |-> None, B |-> None, R |-> None]

Init ==
    \E inp \in CovInputs \cup DispatchInputs :
        /\ heap = IF IsNone(inp.C) THEN <<>> ELSE <<inp.C>>
        /\ args = [inp EXCEPT !.C = IF IsNone(inp.C) THEN None ELSE Ref(1)]
        /\ frame = args
        /\ loc = NoLocals
        /\ pc = "entry"
        /\ ret = Running
        /\ result = NoResult
        /\ calls = [cov_lags |-> 0, whiten_nt |-> 0, pca |-> 0]

\* raise: the call ends with the exception.
Fail(exc) ==
    /\ ret' = exc
    /\ pc' = "done"

\* Mutant of OneSided: only a missing Y is seen.
OneSidedMissingY(X, Y) == IsNone(Y) /\ ~IsNone(X)

\* Exactly one of X and Y is given.
OneSided(X, Y) == (IsNone(X) /\ ~IsNone(Y)) \/ (IsNone(Y) /\ ~IsNone(X))

\* The default of thresh, the check that X and Y come together, and the
\* choice between raw data and covariance.
Entry ==
    /\ pc = "entry"
    /\ frame' = [frame EXCEPT !.thresh = IF IsNone(@) THEN DefaultThresh ELSE @]
    /\ IF OneSided(frame.X, frame.Y)
       THEN Fail(Raise("AttributeError", "Either *both* X and Y should be defined, or C!"))
       ELSE /\ pc' = IF ~IsNone(frame.X) THEN "modeA" ELSE "validate"
            /\ ret' = ret
    /\ UNCHANGED <<args, heap, loc, result, calls>>

\* Raw data: the covariance of [X, Y] over the lags, then nt_cca on it, whose
\* result or exception is that of this call.
ModeA ==
    /\ pc = "modeA"
    /\ calls' = [calls EXCEPT !.cov_lags = @ + 1]
    /\ \E o \in cov_lags(frame.X, frame.Y, check_shifts(frame.lags)) :
          IF o.status = "raise"
          THEN /\ Fail(o.exc)
               /\ UNCHANGED <<heap, frame>>
          ELSE /\ heap' = Alloc(heap, o.C).heap
               /\ frame' = [X |-> None, Y |-> None, lags |-> None,
                            C |-> Alloc(heap, o.C).ref, m |-> o.m,
                            thresh |-> frame.thresh]
               /\ pc' = "entry"
               /\ ret' = ret
    /\ UNCHANGED <<args, loc, result>>

\* The checks of the covariance mode, and the choice between a stack and
\* one page.
Validate ==
    /\ pc = "validate"
    /\ \E o \in ValidateB(frame.X, frame.Y, frame.lags,
                          IF IsNone(frame.C) THEN None ELSE Deref(heap, frame.C),
                          frame.m) :
          IF o.status = "raise"
          THEN Fail(o)
          ELSE /\ pc' = IF Len(Deref(heap, frame.C).shape) = 3 THEN "alloc" ELSE "whiten"
               /\ ret' = ret
    /\ UNCHANGED <<args, heap, frame, loc, result, calls>>

\* A stack: A, B and R are allocated, filled with zeros.  np.zeros of a
\* negative dimension is a ValueError.
Alloc3D ==
    /\ pc = "alloc"
    /\ LET c == Deref(heap, frame.C)
           n == c.shape[1]
           p == c.shape[3]
           m == frame.m.v
           N == Min(m, n - m)
           a == Alloc(heap, ZerosStack(m, N, p))
           b == Alloc(a.heap, ZerosStack(n - m, N, p))
           r == Alloc(b.heap, ZerosTable(N, p))
       IN  IF N < 0
           THEN /\ Fail(Raise("ValueError", "negative dimensions are not allowed"))
                /\ UNCHANGED <<heap, loc>>
           ELSE /\ heap' = r.heap
                /\ loc' = [loc EXCEPT !.A = a.ref, !.B = b.ref, !.R = r.ref]
                /\ pc' = "loop"
                /\ ret' = ret
    /\ UNCHANGED <<args, frame, result, calls>>

NPages == Deref(heap, frame.C).shape[3]

\* One turn of the loop, for page k.
PageStep(k) ==
    /\ pc = "loop"
    /\ k \in (1..NPages) \ loc.done
    /\ LET r == PageApply(heap, loc, frame.C, frame.m.v, frame.thresh, k)
       IN  /\ heap' = r.heap
           /\ calls' = [calls EXCEPT !.whiten_nt = @ + r.whitened, !.pca = @ + r.pcas]
           /\ IF r.exc.status = "raise"
              THEN Fail(r.exc) /\ loc' = loc
              ELSE /\ loc' = [loc EXCEPT !.done = @ \cup {k}]
                   /\ pc' = pc
                   /\ ret' = ret
    /\ UNCHANGED <<args, frame, result>>

\* for k in np.arange(n_lags): the pages in their order.
Page == PageStep(Cardinality(loc.done) + 1)

\* The end of the loop: return A, B, R.
Return3D ==
    /\ pc = "loop"
    /\ loc.done = 1..NPages
    /\ ret' = Ok
    /\ result' = [A |-> loc.A, B |-> loc.B, R |-> loc.R]
    /\ pc' = "done"
    /\ UNCHANGED <<args, heap, frame, loc, calls>>

\* One page: sphere X and sphere Y.
Whiten ==
    /\ pc = "whiten"
    /\ LET w == WhitenBoth(Deref(heap, frame.C), frame.m.v, frame.thresh)
       IN  /\ calls' = [calls EXCEPT !.whiten_nt = @ + w.n]
           /\ IF w.status = "raise"
              THEN Fail(w.exc) /\ loc' = loc
              ELSE /\ loc' = [loc EXCEPT !.Cxw = w.Cxw, !.Cyw = w.Cyw]
                   /\ pc' = "project"
                   /\ ret' = ret
    /\ UNCHANGED <<args, heap, frame, result>>

\* Apply the sphering matrices to C.
Project ==
    /\ pc = "project"
    /\ LET st == StoreProjected(heap, frame.C,
                                Projected(Deref(heap, frame.C), loc.Cxw, loc.Cyw))
       IN  /\ heap' = st.heap
           /\ frame' = [frame EXCEPT !.C = st.ref]
    /\ pc' = "pca"
    /\ UNCHANGED <<args, loc, ret, result, calls>>

\* The PCA of the projection, A, B and R from it, and the return.
Finish ==
    /\ pc = "pca"
    /\ LET cp == Deref(heap, frame.C)
           r == Components(cp.of, loc.Cxw, loc.Cyw, cp)
           a == Alloc(heap, r.A)
           b == Alloc(a.heap, r.B)
           c == Alloc(b.heap, r.R)
       IN  /\ heap' = c.heap
           /\ result' = [A |-> a.ref, B |-> b.ref, R |-> c.ref]
    /\ calls' = [calls EXCEPT !.pca = @ + 1]
    /\ ret' = Ok
    /\ pc' = "done"
    /\ UNCHANGED <<args, frame, loc>>

Next ==
    \/ Entry
    \/ ModeA
    \/ Validate
    \/ Alloc3D
    \/ Page
    \/ Return3D
    \/ Whiten
    \/ Project
    \/ Finish

Spec == Init /\ [][Next]_vars

\* The pages of a stack taken in any order.
AnyPage == \E k \in 1..MaxPages : PageStep(k)

NextAnyOrder ==
    \/ Entry
    \/ ModeA
    \/ Validate
    \/ Alloc3D
    \/ AnyPage
    \/ Return3D
    \/ Whiten
    \/ Project
    \/ Finish

SpecAnyOrder == Init /\ [][NextAnyOrder]_vars

(***************************************************************************)
(* Properties.                                                             *)
(***************************************************************************)
NoCalls == [cov_lags |-> 0, whiten_nt |-> 0, pca |-> 0]
\* The covariance mode: neither X nor Y is given.
CovMode == IsNone(args.X) /\ IsNone(args.Y)
\* The caller's covariance array.
CallerC == heap[args.C.id]

\* C1: a call with exactly one of X and Y ends in the AttributeError of the
\* first check, whatever lags, C, m and thresh are: it goes nowhere else,
\* returns no A, B, R, and calls neither cov_lags, whiten_nt nor pca.
C1_OneOfXYRaises ==
    (IsNone(args.X) # IsNone(args.Y)) =>
        /\ pc \in {"entry", "done"}
        /\ pc = "done" =>
              ret = Raise("AttributeError", "Either *both* X and Y should be defined, or C!")
        /\ result = NoResult
        /\ calls = NoCalls

C1_Witness ==
    /\ pc = "done"
    /\ IsNone(args.X)
    /\ args.Y.kind = "ndarray"
    /\ ~IsNone(args.C)
    /\ ~IsNone(args.lags)
    /\ args.thresh = Half
    /\ ret.type = "AttributeError"

\* C8: in the covariance mode with C and m given, a C whose first two
\* dimensions differ ends the call in the RuntimeError 'covariance matrix
\* should be square', whatever its number of dimensions and whatever lags
\* is, before any whitening, projection or PCA.
NotSquare ==
    /\ CovMode
    /\ ~IsNone(args.C)
    /\ ~IsNone(args.m)
    /\ Len(CallerC.shape) >= 2
    /\ CallerC.shape[1] # CallerC.shape[2]

C8_NotSquareRaises ==
    NotSquare =>
        /\ pc \in {"entry", "validate", "done"}
        /\ pc = "done" => ret = Raise("RuntimeError", "covariance matrix should be square")
        /\ result = NoResult
        /\ calls = NoCalls
        /\ Len(heap) = 1

C8_Witness ==
    /\ NotSquare
    /\ pc = "done"
    /\ Len(CallerC.shape) = 4
    /\ ret.msg = "covariance matrix should be square"

\* C6: a call in the covariance mode on one square page with 0 < m < n_chans
\* returns, and the number N of components, which is the length of R and
\* the number of columns of A and of B, is the smaller of the numbers of
\* columns of the two whitening matrices; N is at most min(m, n_chans - m),
\* and is min(m, n_chans - m) when no eigenvalue of a block is at or below
\* thresh times the largest of the block.
OnePage ==
    /\ CovMode
    /\ IsNone(args.lags)
    /\ ~IsNone(args.C)
    /\ CallerC.shape \in {<<n, n>> : n \in 1..MaxChans}
    /\ ~IsNone(args.m)
    /\ args.m.v \in 1..(CallerC.shape[1] - 1)

\* No eigenvalue d of the block has d / max <= thresh, for the thresholds
\* None (1e-12) and Half.
NothingRemoved(block, t) ==
    \A i \in DOMAIN block : \A j \in DOMAIN block :
        IF IsNone(t) THEN block[i] > 0 ELSE 2 * block[i] > block[j]

\* The number of eigenvalues d of the block with d / max > thresh.
RankOf(block, t) ==
    Cardinality({i \in DOMAIN block :
        /\ block[i] > 0
        /\ ~IsNone(t) => \A j \in DOMAIN block : 2 * block[i] > block[j]})

SquareC ==
    /\ ~IsNone(args.C)
    /\ Len(CallerC.shape) \in {2, 3}
    /\ CallerC.shape[1] = CallerC.shape[2]
LagsGiven ==
    /\ CovMode
    /\ SquareC
    /\ ~IsNone(args.m)
    /\ ~IsNone(args.lags)
OnlyCovariance ==
    Raise("RuntimeError", "only covariance should be defined at this point")

LagsTrue ==
    \/ args.lags.kind = "int" /\ args.lags.v # 0
    \/ args.lags.kind = "list" /\ Len(args.lags.v) > 0
    \/ args.lags.kind = "ndarray" /\ Len(args.lags.v) = 1 /\ args.lags.v[1] # 0
LagsSeveral == args.lags.kind = "ndarray" /\ Len(args.lags.v) > 1
LagsEmptyArray == args.lags.kind = "ndarray" /\ Len(args.lags.v) = 0
LagsFalse == ~LagsTrue /\ ~LagsSeveral /\ ~LagsEmptyArray

C2_CovarianceBesideDataRaises ==
    (~IsNone(args.X) /\ ~IsNone(args.Y) /\ ~IsNone(args.C) /\ ~IsNone(args.m)
        /\ pc = "done")
    => ret.status = "raise" /\ result = NoResult

\* C5 (as claimed): nt_cca([], [], [], C, m) with a square C and 0 < m <
\* n_chans takes the covariance mode: cov_lags is not called, and the call
\* returns, for one page the A, B, R of nt_cca(None, None, None, C, m).
Usage3 ==
    /\ args.X = PyList(<<>>)
    /\ args.Y = PyList(<<>>)
    /\ args.lags = PyList(<<>>)
    /\ SquareC
    /\ ~IsNone(args.m)
    /\ args.m.v \in 1..(CallerC.shape[1] - 1)

C5_EmptyPlaceholdersUseCovariance ==
    Usage3 =>
        /\ pc # "modeA"
        /\ calls.cov_lags = 0
        /\ pc = "done" =>
              /\ ret = Ok
              /\ Len(CallerC.shape) = 2 =>
                    LET r == nt_cca_2d(<<CallerC>>, Ref(1), args.m.v, frame.thresh)
                    IN  /\ heap[result.A.id] = r.A
                        /\ heap[result.B.id] = r.B
                        /\ heap[result.R.id] = r.R

\* C7 (as claimed): a call that returns gives A of shape (n_chans_X,
\* min(n_chans_X, n_chans_Y)) and B of shape (n_chans_Y, min(n_chans_X,
\* n_chans_Y)), each with the axis of the pages behind when C is a stack,
\* and R with one row for each component.
WorkCov == heap[IF CovMode THEN args.C.id ELSE IF IsNone(args.C) THEN 1 ELSE 2]

C7_DocumentedShapes ==
    (pc = "done" /\ ret = Ok) =>
        LET mx == frame.m.v
            my == WorkCov.shape[1] - mx
            N == Min(mx, my)
            tail == IF Len(WorkCov.shape) = 3 THEN <<WorkCov.shape[3]>> ELSE <<>>
        IN  /\ heap[result.A.id].shape = <<mx, N>> \o tail
            /\ heap[result.B.id].shape = <<my, N>> \o tail
            /\ heap[result.R.id].shape = <<N>> \o tail

\* C4 (as claimed): for a stack whose pages differ in rank, the call returns
\* A (m, N, n_pages), B (n_chans - m, N, n_pages) and R (N, n_pages) with
\* N = min(m, n_chans - m), and every page k whose own result has N_k < N
\* components has that result in the leading entries of its slot and zeros
\* in the trailing ones.
StackCall ==
    /\ CovMode
    /\ IsNone(args.lags)
    /\ ~IsNone(args.C)
    /\ Len(CallerC.shape) = 3
    /\ CallerC.shape[1] = CallerC.shape[2]
    /\ ~IsNone(args.m)
    /\ args.m.v \in 1..(CallerC.shape[1] - 1)

\* The result of page k on its own.
Own(k) == nt_cca_2d(heap, View(args.C, k), args.m.v, frame.thresh)

RanksDiffer ==
    \E k1, k2 \in 1..CallerC.shape[3] : Own(k1).R.shape # Own(k2).R.shape

Padded(at, own, rows, cols, Nk) ==
    \A i \in 1..rows : \A j \in 1..cols :
        at[i][j] = IF j <= Nk THEN own[i][j] ELSE Zero

C4_ZeroPadding ==
    (StackCall /\ pc = "done" /\ RanksDiffer) =>
        /\ ret = Ok
        /\ LET m == args.m.v
               n == CallerC.shape[1]
               P == CallerC.shape[3]
               N == Min(m, n - m)
               A == heap[result.A.id]
               B == heap[result.B.id]
               R == heap[result.R.id]
           IN  /\ A.shape = <<m, N, P>>
               /\ B.shape = <<n - m, N, P>>
               /\ R.shape = <<N, P>>
               /\ \A k \in 1..P :
                     LET o == Own(k)
                         Nk == o.R.shape[1]
                     IN  Nk < N =>
                           /\ Padded(A.at[k], o.A.at, m, N, Nk)
                           /\ Padded(B.at[k], o.B.at, n - m, N, Nk)
                           /\ \A j \in 1..N :
                                 R.at[k][j] = IF j <= Nk THEN o.R.at[j] ELSE Zero

\* C9: a call in the covariance mode leaves the caller's arguments as they
\* were: no step changes an entry of the array C or the values lags, m and
\* thresh, whether the call returns or raises, and the A, B and R returned
\* are three arrays other than C.
C9_InputsUntouched ==
    [][(CovMode /\ ~IsNone(args.C)) =>
         /\ args' = args
         /\ heap'[args.C.id] = heap[args.C.id]
         /\ (pc' = "done" /\ ret' = Ok) =>
               Cardinality({args.C.id, result'.A.id, result'.B.id, result'.R.id}) = 4]_vars

\* A stack of two pages has been worked through under a threshold of 0.5 and
\* its A, B, R returned, the two pages of A different.
C9_Witness ==
    /\ CovMode
    /\ ~IsNone(args.C)
    /\ Len(CallerC.shape) = 3
    /\ CallerC.shape[3] = 2
    /\ args.thresh = Half
    /\ pc = "done"
    /\ ret = Ok
    /\ heap[result.A.id].at[1] # heap[result.A.id].at[2]
    /\ heap[args.C.id] \in Cov3D

\* C10: in the loop over the pages of a stack, taken in any order, a turn
\* for page k leaves every slot but k as it was, and what it leaves in slot k
\* is what page k alone puts into a slot of zeros; and when the loop ends,
\* it ends as the loop over k = 0 .. n_pages - 1 ends: both raise, or both
\* return, and then the same A, B and R.
SlotsOf(h, k) == <<h[loc.A.id].at[k], h[loc.B.id].at[k], h[loc.R.id].at[k]>>

\* The heap with A, B and R as they were allocated.
ZeroedHeap ==
    [heap EXCEPT ![loc.A.id] = ZerosStack(@.shape[1], @.shape[2], @.shape[3]),
                 ![loc.B.id] = ZerosStack(@.shape[1], @.shape[2], @.shape[3]),
                 ![loc.R.id] = ZerosTable(@.shape[1], @.shape[2])]

\* The loop over the pages k, k + 1, ... in their order, from heap h.
RECURSIVE InOrder(_, _)
InOrder(h, k) ==
    IF k > NPages THEN [exc |-> Ok, heap |-> h]
    ELSE LET r == PageApply(h, [loc EXCEPT !.done = 1..(k - 1)], frame.C,
                            frame.m.v, frame.thresh, k)
         IN  IF r.exc.status = "raise" THEN [exc |-> r.exc, heap |-> r.heap]
             ELSE InOrder(r.heap, k + 1)

\* Page k alone, on zeros.
Alone(k) ==
    PageApply(ZeroedHeap, [loc EXCEPT !.done = {}], frame.C, frame.m.v, frame.thresh, k)

C10_AnyOrderOfPages ==
    [][pc = "loop" =>
         /\ \A k \in loc'.done \ loc.done :
               /\ \A j \in (1..NPages) \ {k} : SlotsOf(heap', j) = SlotsOf(heap, j)
               /\ SlotsOf(heap', k) = SlotsOf(Alone(k).heap, k)
         /\ pc' = "done" =>
               /\ ret'.status = InOrder(ZeroedHeap, 1).exc.status
               /\ ret' = Ok =>
                     /\ heap'[result'.A.id] = InOrder(ZeroedHeap, 1).heap[loc.A.id]
                     /\ heap'[result'.B.id] = InOrder(ZeroedHeap, 1).heap[loc.B.id]
                     /\ heap'[result'.R.id] = InOrder(ZeroedHeap, 1).heap[loc.R.id]]_vars

\* The second page of a stack of two different pages is done before the
\* first.
C10_Witness ==
    /\ pc = "loop"
    /\ NPages = 2
    /\ loc.done = {2}
    /\ Deref(heap, View(frame.C, 1)) # Deref(heap, View(frame.C, 2))
    /\ SlotsOf(heap, 2) # SlotsOf(ZeroedHeap, 2)
    /\ SlotsOf(heap, 1) = SlotsOf(ZeroedHeap, 1)

====
